---- MODULE Spec2Model ----
(***************************************************************************)
(* Model of the Markdown -> Gutenberg block converter of deploy.py.        *)
(*                                                                         *)
(* A text is a sequence of atoms.  An atom is a one-character string of    *)
(* the source text, or a piece of markup the converter inserts (such as    *)
(* "<em>"), kept as one atom: no markup the converter inserts contains a   *)
(* character that a later substitution pattern looks for.  A line is a     *)
(* text without "\n"; a document is a sequence of lines (the result of     *)
(* split('\n')).  Python indexes from 0, the model from 1.  The atom       *)
(* "BACKTICK" stands for the backtick character.                           *)
(***************************************************************************)
EXTENDS Integers, Sequences, FiniteSets, TLC

VARIABLES
    markdown_content,  \* input of markdown_to_gutenberg, as its lines
    use_highlight_plugin, \* input flag of markdown_to_gutenberg
    pc,                \* position of the running operation
    lines,             \* content_without_footnotes.split('\n')
    footnotes,         \* dict id -> definition text (extract_footnotes)
    footnote_order,    \* dict id -> <<token, ordinal>>
    i,                 \* line cursor of the block scanner (1-based)
    blocks,            \* blocks emitted so far
    footnotes_meta,    \* returned list of [id, content]
    iters,             \* number of outer-loop iterations taken so far
    run,               \* 1 for the first invocation, 2 for the repeated one
    prev,              \* result returned by the first invocation
    text,              \* argument of process_inline_formatting
    counter_given,     \* FALSE when footnote_counter is None
    out,               \* value returned by process_inline_formatting
    md_file,           \* the Markdown file on disk: its front matter and images
    local,             \* the local variables of main
    posts,             \* number of posts created on the WordPress site
    effects,           \* side effects main has had since it was started
    mpc,               \* position of main
    runs               \* number of times main was started

vars == <<markdown_content, use_highlight_plugin, pc, lines, footnotes,
          footnote_order, i, blocks, footnotes_meta, iters, run, prev,
          text, counter_given, out, md_file, local, posts, effects, mpc, runs>>

\* the part of the state that belongs to main
mainvars == <<md_file, local, posts, effects, mpc, runs>>

-----------------------------------------------------------------------------
(* Bounds *)

MaxLines == 3
MaxIters == 6
MaxChunks == 4
MaxTableLines == 4
MaxListLines == 4
MaxRuns == 2

-----------------------------------------------------------------------------
(* Character classes and string helpers *)

Whitespace == {" ", "\t"}

Digits == {"0", "1", "2", "3", "4", "5", "6", "7", "8", "9"}

LowerCase == <<"a", "b", "c", "d", "e", "f", "g", "h", "i", "j", "k", "l", "m",
               "n", "o", "p", "q", "r", "s", "t", "u", "v", "w", "x", "y", "z">>

UpperCase == <<"A", "B", "C", "D", "E", "F", "G", "H", "I", "J", "K", "L", "M",
               "N", "O", "P", "Q", "R", "S", "T", "U", "V", "W", "X", "Y", "Z">>

Letters == {LowerCase[k] : k \in 1..26} \cup {UpperCase[k] : k \in 1..26}

WordChars == Letters \cup Digits \cup {"_"}

Min(S) == CHOOSE k \in S : \A j \in S : k <= j

Max(S) == CHOOSE k \in S : \A j \in S : k >= j

\* s[p:] in Python terms, p 1-based
Tail0(s, p) == SubSeq(s, p, Len(s))

\* smallest k >= p with s[k] \in C, 0 when there is none
IndexFrom(s, p, C) ==
    LET S == {k \in p..Len(s) : s[k] \in C}
    IN  IF S = {} THEN 0 ELSE Min(S)

\* smallest k >= p where d occurs in s, 0 when there is none
FindSeq(s, p, d) ==
    LET S == {k \in p..(Len(s) - Len(d) + 1) : SubSeq(s, k, k + Len(d) - 1) = d}
    IN  IF S = {} THEN 0 ELSE Min(S)

\* d occurs in s at position p
MatchAt(s, p, d) == p + Len(d) - 1 <= Len(s) /\ SubSeq(s, p, p + Len(d) - 1) = d

startswith(s, d) == Len(s) >= Len(d) /\ SubSeq(s, 1, Len(d)) = d

endswith(s, d) == Len(s) >= Len(d) /\ SubSeq(s, Len(s) - Len(d) + 1, Len(s)) = d

Contains(s, d) == FindSeq(s, 1, d) # 0

lstrip(s, C) ==
    LET S == {k \in 1..Len(s) : s[k] \notin C}
    IN  IF S = {} THEN <<>> ELSE SubSeq(s, Min(S), Len(s))

rstrip(s, C) ==
    LET S == {k \in 1..Len(s) : s[k] \notin C}
    IN  IF S = {} THEN <<>> ELSE SubSeq(s, 1, Max(S))

strip(s) == rstrip(lstrip(s, Whitespace), Whitespace)

RECURSIVE Join(_, _)
Join(ss, sep) ==
    IF ss = <<>> THEN <<>>
    ELSE IF Len(ss) = 1 THEN ss[1]
    ELSE ss[1] \o sep \o Join(Tail(ss), sep)

RECURSIVE Split(_, _)
Split(s, c) ==
    LET k == IndexFrom(s, 1, {c})
    IN  IF k = 0 THEN <<s>>
        ELSE <<SubSeq(s, 1, k - 1)>> \o Split(Tail0(s, k + 1), c)

-----------------------------------------------------------------------------
(* process_inline_formatting *)

\* re.search(r'\[[\w\-_]+[^\]]*\]', text)
RECURSIVE HasShortcodeFrom(_, _)
HasShortcodeFrom(s, p) ==
    IF p > Len(s) THEN FALSE
    ELSE IF /\ s[p] = "["
            /\ p + 1 <= Len(s)
            /\ s[p + 1] \in WordChars \cup {"-"}
            /\ IndexFrom(s, p + 2, {"]"}) # 0
         THEN TRUE
         ELSE HasShortcodeFrom(s, p + 1)

HasShortcode(s) == HasShortcodeFrom(s, 1)

\* re.sub(r'`([^`]+)`', r'<code>\1</code>', text)
RECURSIVE SubCode(_, _)
SubCode(s, p) ==
    IF p > Len(s) THEN <<>>
    ELSE LET q == IF s[p] = "BACKTICK" THEN IndexFrom(s, p + 1, {"BACKTICK"}) ELSE 0
         IN  IF q > p + 1
             THEN <<"<code>">> \o SubSeq(s, p + 1, q - 1) \o <<"</code>">>
                  \o SubCode(s, q + 1)
             ELSE <<s[p]>> \o SubCode(s, p + 1)

\* re.sub of  d(.*?)d  by  open \1 close, for a delimiter d of 1 or 2 characters
RECURSIVE SubDelim(_, _, _, _, _)
SubDelim(s, p, d, open, close) ==
    IF p > Len(s) THEN <<>>
    ELSE LET n == Len(d)
             q == IF MatchAt(s, p, d) THEN FindSeq(s, p + n, d) ELSE 0
         IN  IF q # 0
             THEN <<open>> \o SubSeq(s, p + n, q - 1) \o <<close>>
                  \o SubDelim(s, q + n, d, open, close)
             ELSE <<s[p]>> \o SubDelim(s, p + 1, d, open, close)

\* the markup replace_footnote_ref returns for a resolved id
NumStr(n) == <<"1", "2", "3", "4", "5", "6", "7", "8", "9">>[n]

SupMarker(entry) ==
    <<"<sup data-fn=\"", entry[1], "\" class=\"fn\"><a href=\"#", entry[1], "\" id=\"",
      entry[1], "-link\">", NumStr(entry[2]), "</a></sup>">>

\* re.sub(r'\[\^([^\]]+)\]', replace_footnote_ref, text)
RECURSIVE SubFootnote(_, _, _)
SubFootnote(s, p, footnote_counter) ==
    IF p > Len(s) THEN <<>>
    ELSE LET q == IF MatchAt(s, p, <<"[", "^">>)
                  THEN IndexFrom(s, p + 2, {"]"}) ELSE 0
         IN  IF q > p + 2
             THEN LET ref_id == SubSeq(s, p + 2, q - 1)
                  IN  (IF ref_id \in DOMAIN footnote_counter
                       THEN SupMarker(footnote_counter[ref_id])
                       ELSE SubSeq(s, p, q))
                      \o SubFootnote(s, q + 1, footnote_counter)
             ELSE <<s[p]>> \o SubFootnote(s, p + 1, footnote_counter)

\* re.sub(r'\[([^\]^]+)\]\(([^\)]+)\)', r'<a href="\2">\1</a>', text)
RECURSIVE SubLink(_, _)
SubLink(s, p) ==
    IF p > Len(s) THEN <<>>
    ELSE LET k == IF s[p] = "[" THEN IndexFrom(s, p + 1, {"]", "^"}) ELSE 0
             m == IF /\ k > p + 1
                     /\ MatchAt(s, k, <<"]", "(">>)
                  THEN IndexFrom(s, k + 2, {")"}) ELSE 0
         IN  IF m > k + 2 /\ k # 0
             THEN <<"<a href=\"">> \o SubSeq(s, k + 2, m - 1) \o <<"\">">>
                  \o SubSeq(s, p + 1, k - 1) \o <<"</a>">> \o SubLink(s, m + 1)
             ELSE <<s[p]>> \o SubLink(s, p + 1)

InlineSubstitutions(s, given, footnote_counter) ==
    LET t1 == SubCode(s, 1)
        t2 == SubDelim(t1, 1, <<"*", "*">>, "<strong>", "</strong>")
        t3 == SubDelim(t2, 1, <<"_", "_">>, "<strong>", "</strong>")
        t4 == SubDelim(t3, 1, <<"*">>, "<em>", "</em>")
        t5 == SubDelim(t4, 1, <<"_">>, "<em>", "</em>")
        t6 == IF given THEN SubFootnote(t5, 1, footnote_counter) ELSE t5
    IN  SubLink(t6, 1)

\* the shortcode test made after the inline code pass
process_inline_formatting_CheckLate(s, given, footnote_counter) ==
    IF HasShortcode(SubCode(s, 1)) THEN SubCode(s, 1)
    ELSE InlineSubstitutions(s, given, footnote_counter)

process_inline_formatting(s, given, footnote_counter) ==
    IF HasShortcode(s) THEN s
    ELSE InlineSubstitutions(s, given, footnote_counter)

-----------------------------------------------------------------------------
(* convert_urls_to_links *)

UrlPunctuation == {".", ",", ";", ":", "!", "?", ")"}

\* the length of the scheme when  https?://  matches at p, 0 otherwise
UrlSchemeAt(s, p) ==
    IF MatchAt(s, p, <<"h", "t", "t", "p", ":", "/", "/">>) THEN 7
    ELSE IF MatchAt(s, p, <<"h", "t", "t", "p", "s", ":", "/", "/">>) THEN 8
    ELSE 0

\* replace_url: the trailing punctuation is moved behind the link
replace_url(url) ==
    LET stripped == rstrip(url, UrlPunctuation)
    IN  <<"<a href=\"">> \o stripped \o <<"\">">> \o stripped \o <<"</a>">>
        \o SubSeq(url, Len(stripped) + 1, Len(url))

\* re.sub(r'(https?://[^\s]+)', replace_url, text)
RECURSIVE SubUrl(_, _)
SubUrl(s, p) ==
    IF p > Len(s) THEN <<>>
    ELSE LET n == UrlSchemeAt(s, p)
             w == IndexFrom(s, p + n, Whitespace \cup {"\n"})
             e == IF w = 0 THEN Len(s) ELSE w - 1
         IN  IF n # 0 /\ e >= p + n
             THEN replace_url(SubSeq(s, p, e)) \o SubUrl(s, e + 1)
             ELSE <<s[p]>> \o SubUrl(s, p + 1)

convert_urls_to_links(s) == SubUrl(s, 1)

-----------------------------------------------------------------------------
(* extract_footnotes *)

\* re.match(r'^\[\^([^\]]+)\]:\s*(.+)$', line): the id and the text, or no match
FootnoteDef(line) ==
    LET k == IF startswith(line, <<"[", "^">>) THEN IndexFrom(line, 3, {"]"}) ELSE 0
        rest == IF k > 3 /\ MatchAt(line, k, <<"]", ":">>) THEN Tail0(line, k + 2) ELSE <<>>
        body == lstrip(rest, Whitespace)
    IN  IF rest = <<>> THEN [ok |-> FALSE, id |-> <<>>, text |-> <<>>]
        ELSE [ok |-> TRUE, id |-> SubSeq(line, 3, k - 1),
              text |-> IF body # <<>> THEN body ELSE <<rest[Len(rest)]>>]

IsContinuation(line) ==
    startswith(line, <<" ", " ", " ", " ">>) \/ startswith(line, <<"\t">>)

\* a store that keeps the value a key already has
DictSet_KeepFirst(d, k, v) ==
    [x \in DOMAIN d \cup {k} |-> IF x \in DOMAIN d THEN d[x] ELSE v]

\* d[k] = v
DictSet(d, k, v) == [x \in DOMAIN d \cup {k} |-> IF x = k THEN v ELSE d[x]]

\* an inner loop that reads no line
ReadContinuation_None(ls, j, footnote_text) == [next |-> j, text |-> footnote_text]

\* the inner loop of extract_footnotes: appends the continuation lines
RECURSIVE ReadContinuation(_, _, _)
ReadContinuation(ls, j, footnote_text) ==
    IF j <= Len(ls) /\ IsContinuation(ls[j])
    THEN ReadContinuation(ls, j + 1, footnote_text \o <<" ">> \o strip(ls[j]))
    ELSE [next |-> j, text |-> footnote_text]

\* the outer loop of extract_footnotes
RECURSIVE ExtractLoop(_, _, _, _)
ExtractLoop(ls, j, content_lines, fn) ==
    IF j > Len(ls) THEN [content |-> content_lines, footnotes |-> fn]
    ELSE LET match == FootnoteDef(ls[j])
             cont == ReadContinuation(ls, j + 1, match.text)
         IN  IF match.ok
             THEN ExtractLoop(ls, cont.next, content_lines,
                              DictSet(fn, match.id, cont.text))
             ELSE ExtractLoop(ls, j + 1, Append(content_lines, ls[j]), fn)

\* returns the cleaned text (one string, lines joined by "\n") and the dict
extract_footnotes(ls) ==
    LET r == ExtractLoop(ls, 1, <<>>, <<>>)
    IN  [content |-> Join(r.content, <<"\n">>), footnotes |-> r.footnotes]

-----------------------------------------------------------------------------
(* the footnote order map of markdown_to_gutenberg *)

\* the ids of re.finditer(r'\[\^([^\]]+)\]', content_without_footnotes), in order
RECURSIVE FootnoteRefs(_, _)
FootnoteRefs(s, p) ==
    IF p > Len(s) THEN <<>>
    ELSE LET q == IF MatchAt(s, p, <<"[", "^">>)
                  THEN IndexFrom(s, p + 2, {"]"}) ELSE 0
         IN  IF q > p + 2
             THEN <<SubSeq(s, p + 2, q - 1)>> \o FootnoteRefs(s, q + 1)
             ELSE FootnoteRefs(s, p + 1)

\* the loop over the references, numbering by the position of the reference
RECURSIVE AssignOrder_ByPosition(_, _, _, _, _, _)
AssignOrder_ByPosition(refs, k, fn, order, footnote_counter_num, uuids) ==
    IF k > Len(refs) THEN order
    ELSE IF refs[k] \notin DOMAIN order /\ refs[k] \in DOMAIN fn
         THEN AssignOrder_ByPosition(refs, k + 1, fn,
                          DictSet(order, refs[k], <<uuids[footnote_counter_num], k>>),
                          footnote_counter_num + 1, uuids)
         ELSE AssignOrder_ByPosition(refs, k + 1, fn, order, footnote_counter_num, uuids)

\* the loop over the references; uuids[n] is the value the n-th call of
\* uuid.uuid4() returns
RECURSIVE AssignOrder(_, _, _, _, _, _)
AssignOrder(refs, k, fn, order, footnote_counter_num, uuids) ==
    IF k > Len(refs) THEN order
    ELSE IF refs[k] \notin DOMAIN order /\ refs[k] \in DOMAIN fn
         THEN AssignOrder(refs, k + 1, fn,
                          DictSet(order, refs[k],
                                  <<uuids[footnote_counter_num], footnote_counter_num>>),
                          footnote_counter_num + 1, uuids)
         ELSE AssignOrder(refs, k + 1, fn, order, footnote_counter_num, uuids)

\* the number of uuid4() calls the loop makes
RECURSIVE NumResolved(_, _, _, _)
NumResolved(refs, k, fn, seen) ==
    IF k > Len(refs) THEN Cardinality(seen)
    ELSE NumResolved(refs, k + 1, fn,
                     IF refs[k] \in DOMAIN fn THEN seen \cup {refs[k]} ELSE seen)

\* uuid.uuid4(): an unpredictable value, different at every call of one
\* invocation
Tokens == {"u1", "u2", "u3"}

UuidChoices(n) ==
    {u \in [1..n -> Tokens] : \A a, b \in 1..n : a # b => u[a] # u[b]}

-----------------------------------------------------------------------------
(* Blocks.  A block keeps what its create_* function was given and the     *)
(* texts it rendered: parts is a sequence of rows, a row a sequence of     *)
(* texts.  line and end are the first and the last source line the block   *)
(* was made from.                                                          *)

Block(kind, first, last, level, ordered, language, parts) ==
    [kind |-> kind, line |-> first, end |-> last, level |-> level,
     ordered |-> ordered, language |-> language, parts |-> parts]

\* create_heading_block
create_heading_block(first, content, level, footnote_counter) ==
    Block("heading", first, first, level, FALSE, <<>>,
          <<<<process_inline_formatting(content, TRUE, footnote_counter)>>>>)

\* create_paragraph_block: no block for blank content
create_paragraph_block(first, last, content, footnote_counter) ==
    IF strip(content) = <<>> THEN <<>>
    ELSE <<Block("paragraph", first, last, 0, FALSE, <<>>,
                 <<<<process_inline_formatting(content, TRUE, footnote_counter)>>>>)>>

\* create_quote_block
create_quote_block(first, content, footnote_counter) ==
    Block("quote", first, first, 0, FALSE, <<>>,
          <<<<process_inline_formatting(content, TRUE, footnote_counter)>>>>)

\* create_image_block
create_image_block(first, url, alt) ==
    Block("image", first, first, 0, FALSE, <<>>, <<<<url, alt>>>>)

\* create_list_block
create_list_block(first, last, items, ordered, footnote_counter) ==
    Block("list", first, last, 0, ordered, <<>>,
          <<[k \in 1..Len(items) |->
                process_inline_formatting(items[k], TRUE, footnote_counter)]>>)

\* escape_html
escape_html(s) ==
    LET Esc(c) == IF c = "&" THEN "&amp;"
                  ELSE IF c = "<" THEN "&lt;"
                  ELSE IF c = ">" THEN "&gt;" ELSE c
    IN  [k \in 1..Len(s) |-> Esc(s[k])]

\* create_code_block: the highlight variant escapes the code and defaults an
\* absent language to "text"; the plain variant emits the code as it is
create_code_block(first, last, highlight, code, language) ==
    IF highlight
    THEN Block("hcb-code", first, last, 0, FALSE,
               IF language # <<>> THEN language ELSE <<"t", "e", "x", "t">>,
               <<<<escape_html(code)>>>>)
    ELSE Block("code", first, last, 0, FALSE, language, <<<<code>>>>)

\* create_footnotes_block
create_footnotes_block(fn, order) ==
    IF fn = <<>> \/ order = <<>> THEN <<>>
    ELSE <<Block("footnotes", 0, 0, 0, FALSE, <<>>, <<>>)>>

-----------------------------------------------------------------------------
(* Construct parsers *)

IsPipeRow(line) == startswith(line, <<"|">>) /\ endswith(line, <<"|">>)

\* parse_table: the pipe rows from start on, blank lines skipped, and the
\* index of the last line consumed
RECURSIVE parse_table_loop(_, _, _)
parse_table_loop(ls, k, table_lines) ==
    IF k > Len(ls) THEN [table_lines |-> table_lines, end_index |-> k - 1]
    ELSE LET line == strip(ls[k])
         IN  IF IsPipeRow(line)
             THEN parse_table_loop(ls, k + 1, Append(table_lines, line))
             ELSE IF line = <<>>
                  THEN parse_table_loop(ls, k + 1, table_lines)
                  ELSE [table_lines |-> table_lines, end_index |-> k - 1]

parse_table(ls, start_index) == parse_table_loop(ls, start_index, <<>>)

NonEmpty(c) == c # <<>>

\* [cell.strip() for cell in line.split('|') if cell.strip()]
RowCells(line) ==
    LET fields == Split(line, "|")
    IN  SelectSeq([k \in 1..Len(fields) |-> strip(fields[k])], NonEmpty)

RenderedCells_All(row, header_cells) == row

\* the cells of a body row that are rendered: those with index < len(header_cells)
RenderedCells(row, header_cells) ==
    SubSeq(row, 1, IF Len(row) < Len(header_cells) THEN Len(row) ELSE Len(header_cells))

\* body_rows: the cells of every body line that has a non-empty cell
BodyRows(body_lines) ==
    SelectSeq([k \in 1..Len(body_lines) |-> RowCells(body_lines[k])], NonEmpty)

BodyLines_FromSecond(table_lines) ==
    IF Len(table_lines) > 2 THEN SubSeq(table_lines, 2, Len(table_lines)) ELSE <<>>

\* table_lines[2:] if len(table_lines) > 2 else []
BodyLines(table_lines) ==
    IF Len(table_lines) > 2 THEN SubSeq(table_lines, 3, Len(table_lines)) ELSE <<>>

\* create_table_block: parts[1] is the header row, the rest the body rows
create_table_block(first, last, table_lines, footnote_counter) ==
    IF Len(table_lines) < 2 THEN <<>>
    ELSE LET header_cells == RowCells(table_lines[1])
             body_rows == BodyRows(BodyLines(table_lines))
             Fmt(row) == [k \in 1..Len(row) |->
                            process_inline_formatting(row[k], TRUE, footnote_counter)]
         IN  <<Block("table", first, last, 0, FALSE, <<>>,
                     <<Fmt(header_cells)>> \o
                     [r \in 1..Len(body_rows) |->
                        Fmt(RenderedCells(body_rows[r], header_cells))])>>

\* the length of the leading run of characters of C
RunLength(s, C) ==
    LET S == {k \in 1..Len(s) : s[k] \notin C}
    IN  IF S = {} THEN Len(s) ELSE Min(S) - 1

ListMarkers == {"-", "*", "+"}

\* re.match(r'^\d+\.', line)
IsOrderedStart(line) ==
    LET d == RunLength(line, Digits)
    IN  d >= 1 /\ MatchAt(line, d + 1, <<".">>)

\* a pattern that accepts both marker styles
ListItemMatch_AnyMarker(line, ordered) ==
    IF IsOrderedStart(line)
    THEN [ok |-> TRUE,
          item |-> lstrip(Tail0(line, RunLength(line, Digits) + 2), Whitespace)]
    ELSE IF line # <<>> /\ line[1] \in ListMarkers
         THEN [ok |-> TRUE, item |-> lstrip(Tail0(line, 2), Whitespace)]
         ELSE [ok |-> FALSE, item |-> <<>>]

\* re.match(pattern, line) of parse_list_items: the captured item text
ListItemMatch(line, ordered) ==
    IF ordered
    THEN IF IsOrderedStart(line)
         THEN [ok |-> TRUE,
               item |-> lstrip(Tail0(line, RunLength(line, Digits) + 2), Whitespace)]
         ELSE [ok |-> FALSE, item |-> <<>>]
    ELSE IF line # <<>> /\ line[1] \in ListMarkers
         THEN [ok |-> TRUE, item |-> lstrip(Tail0(line, 2), Whitespace)]
         ELSE [ok |-> FALSE, item |-> <<>>]

\* a lookahead that takes no line for a list line
LooksLikeList_None(line) == FALSE

\* re.match(r'^[-*+\d]', line)
LooksLikeList(line) == line # <<>> /\ line[1] \in ListMarkers \cup Digits

\* the loop of parse_list_items
RECURSIVE parse_list_loop(_, _, _, _)
parse_list_loop(ls, k, items, ordered) ==
    IF k > Len(ls) THEN [items |-> items, end_index |-> k - 1, ordered |-> ordered]
    ELSE LET line == strip(ls[k])
             match == ListItemMatch(line, ordered)
         IN  IF line = <<>>
             THEN IF k + 1 <= Len(ls) /\ ~LooksLikeList(strip(ls[k + 1]))
                  THEN [items |-> items, end_index |-> k - 1, ordered |-> ordered]
                  ELSE parse_list_loop(ls, k + 1, items, ordered)
             ELSE IF match.ok
                  THEN parse_list_loop(ls, k + 1, Append(items, match.item), ordered)
                  ELSE [items |-> items, end_index |-> k - 1, ordered |-> ordered]

\* parse_list_items: the type is taken from the first line
parse_list_items(ls, start_index) ==
    parse_list_loop(ls, start_index, <<>>, IsOrderedStart(strip(ls[start_index])))

Fence == <<"BACKTICK", "BACKTICK", "BACKTICK">>

\* the loop of parse_code_block: the index of the closing fence, or Len + 1
RECURSIVE FenceEnd(_, _)
FenceEnd(ls, k) ==
    IF k > Len(ls) \/ strip(ls[k]) = Fence THEN k ELSE FenceEnd(ls, k + 1)

\* parse_code_block
parse_code_block(ls, start_index) ==
    LET start_line == strip(ls[start_index])
        after == Tail0(start_line, 4)
        end == FenceEnd(ls, start_index + 1)
    IN  [code |-> Join(SubSeq(ls, start_index + 1, end - 1), <<"\n">>),
         language |-> SubSeq(after, 1, RunLength(after, WordChars)),
         end_index |-> end]

-----------------------------------------------------------------------------
(* The block scanner of markdown_to_gutenberg *)

\* re.match(r'^[-*+]\s', s) or re.match(r'^\d+\.\s', s)
IsListOpener(s) ==
    \/ Len(s) >= 2 /\ s[1] \in ListMarkers /\ s[2] \in Whitespace
    \/ /\ IsOrderedStart(s)
       /\ RunLength(s, Digits) + 2 <= Len(s)
       /\ s[RunLength(s, Digits) + 2] \in Whitespace

\* re.match(r'!\[([^\]]*)\]\(([^)]*)\)', stripped): alt and url, or no match
ImageMatch(s) ==
    LET k == IF startswith(s, <<"!", "[">>) THEN IndexFrom(s, 3, {"]"}) ELSE 0
        m == IF k # 0 /\ MatchAt(s, k, <<"]", "(">>)
             THEN IndexFrom(s, k + 2, {")"}) ELSE 0
    IN  IF m = 0 THEN [ok |-> FALSE, alt |-> <<>>, url |-> <<>>]
        ELSE [ok |-> TRUE, alt |-> SubSeq(s, 3, k - 1), url |-> SubSeq(s, k + 2, m - 1)]

\* re.match(r'!\[.*\]\(.*\)', current_line)
LooksLikeImage(s) ==
    /\ startswith(s, <<"!", "[">>)
    /\ \E j \in 3..Len(s) :
          MatchAt(s, j, <<"]", "(">>) /\ IndexFrom(s, j + 2, {")"}) # 0

\* the conditions that end the paragraph loop
EndsParagraph(current_line) ==
    \/ current_line = <<>>
    \/ startswith(current_line, <<"#">>)
    \/ startswith(current_line, Fence)
    \/ startswith(current_line, <<">">>)
    \/ IsListOpener(current_line)
    \/ LooksLikeImage(current_line)

\* the paragraph loop: the lines collected and the cursor it stops at
RECURSIVE paragraph_loop(_, _, _)
paragraph_loop(ls, k, paragraph_lines) ==
    IF k > Len(ls) \/ EndsParagraph(strip(ls[k]))
    THEN [paragraph_lines |-> paragraph_lines, next |-> k]
    ELSE paragraph_loop(ls, k + 1, Append(paragraph_lines, strip(ls[k])))

\* len(stripped) - len(stripped.lstrip('#'))
HeadingLevel(stripped) == RunLength(stripped, {"#"})

MaxHeadingLevel == 6

\* a test that accepts every candidate span
EnoughRows_Any(table_lines) == TRUE

\* if len(table_lines) >= 2
EnoughRows(table_lines) == Len(table_lines) >= 2

\* One iteration of the outer loop at cursor k: the blocks it appends and the
\* cursor it leaves.  The rules are tried in the order of the code; a rule
\* whose inner condition fails falls through to the next one.
ScanIteration(ls, k, highlight, order) ==
    LET stripped == strip(ls[k])
        code == parse_code_block(ls, k)
        table == parse_table(ls, k)
        list == parse_list_items(ls, k)
        img == ImageMatch(stripped)
        para == paragraph_loop(ls, k, <<>>)
        LastLine(e) == IF e > Len(ls) THEN Len(ls) ELSE e
    IN  IF stripped = <<>>
        THEN [blocks |-> <<>>, next |-> k + 1]
        ELSE IF startswith(stripped, <<"#">>) /\ HeadingLevel(stripped) <= MaxHeadingLevel
        THEN [blocks |-> <<create_heading_block(k, strip(lstrip(stripped, {"#"})),
                                                HeadingLevel(stripped), order)>>,
              next |-> k + 1]
        ELSE IF startswith(stripped, Fence)
        THEN [blocks |-> <<create_code_block(k, LastLine(code.end_index), highlight,
                                             code.code, code.language)>>,
              next |-> code.end_index + 1]
        ELSE IF IsPipeRow(stripped) /\ EnoughRows(table.table_lines)
        THEN [blocks |-> create_table_block(k, table.end_index, table.table_lines, order),
              next |-> table.end_index + 1]
        ELSE IF startswith(stripped, <<">">>)
        THEN [blocks |-> <<create_quote_block(k, strip(lstrip(stripped, {">"})), order)>>,
              next |-> k + 1]
        ELSE IF IsListOpener(stripped)
        THEN [blocks |-> IF list.items # <<>>
                         THEN <<create_list_block(k, list.end_index, list.items,
                                                  list.ordered, order)>>
                         ELSE <<>>,
              next |-> list.end_index + 1]
        ELSE IF img.ok
        THEN [blocks |-> <<create_image_block(k, img.url, img.alt)>>, next |-> k + 1]
        ELSE [blocks |-> IF para.paragraph_lines # <<>>
                         THEN create_paragraph_block(k, para.next - 1,
                                  Join(para.paragraph_lines, <<" ">>), order)
                         ELSE <<>>,
              next |-> para.next]

\* the ids of the order map sorted by their ordinal
SortedByOrdinal(order) ==
    LET n == Cardinality(DOMAIN order)
    IN  [k \in 1..n |-> CHOOSE id \in DOMAIN order :
            Cardinality({o \in DOMAIN order : order[o][2] < order[id][2]}) = k - 1]

TokenRank(t) == CHOOSE k \in 1..3 : <<"u1", "u2", "u3">>[k] = t

\* the ids of the order map sorted by their token
SortedByToken(order) ==
    LET n == Cardinality(DOMAIN order)
    IN  [k \in 1..n |-> CHOOSE id \in DOMAIN order :
            Cardinality({o \in DOMAIN order :
                TokenRank(order[o][1]) < TokenRank(order[id][1])}) = k - 1]

\* the ids of the order map sorted by decreasing ordinal
SortedDescending(order) ==
    LET n == Cardinality(DOMAIN order)
    IN  [k \in 1..n |-> CHOOSE id \in DOMAIN order :
            Cardinality({o \in DOMAIN order : order[o][2] > order[id][2]}) = k - 1]

\* the loop that fills footnotes_meta, over the ids in the order ids
MetaEntries(fn, order, ids) ==
    LET Defined(id) == id \in DOMAIN fn
        kept == SelectSeq(ids, Defined)
    IN  [k \in 1..Len(kept) |-> [id |-> order[kept[k]][1],
                                 content |-> convert_urls_to_links(fn[kept[k]])]]

FootnotesMeta_ByToken(fn, order) == MetaEntries(fn, order, SortedByToken(order))

FootnotesMeta_Descending(fn, order) == MetaEntries(fn, order, SortedDescending(order))

\* footnotes_meta: one entry per id of the order map, sorted by ordinal
FootnotesMeta(fn, order) == MetaEntries(fn, order, SortedByOrdinal(order))

PrependBlock(bs, b) == b \o bs

\* blocks.append(footnotes_block)
AppendBlock(bs, b) == bs \o b

-----------------------------------------------------------------------------
(* The rendered text of a block (the f-strings of the create_* functions)  *)
(* and of the document                                                     *)

Upper(c) == IF \E k \in 1..26 : LowerCase[k] = c
            THEN UpperCase[CHOOSE k \in 1..26 : LowerCase[k] = c] ELSE c

Lower(c) == IF \E k \in 1..26 : UpperCase[k] = c
            THEN LowerCase[CHOOSE k \in 1..26 : UpperCase[k] = c] ELSE c

\* str.lower
lower(s) == [k \in 1..Len(s) |-> Lower(s[k])]

\* str.capitalize
capitalize(s) == [k \in 1..Len(s) |-> IF k = 1 THEN Upper(s[k]) ELSE Lower(s[k])]

lang_display_names ==
    <<"p", "y", "t", "h", "o", "n">> :> <<"P", "y", "t", "h", "o", "n">> @@
    <<"p", "h", "p">> :> <<"P", "H", "P">> @@
    <<"j", "a", "v", "a", "s", "c", "r", "i", "p", "t">> :> <<"J", "a", "v", "a", "S", "c", "r", "i", "p", "t">> @@
    <<"j", "s">> :> <<"J", "a", "v", "a", "S", "c", "r", "i", "p", "t">> @@
    <<"h", "t", "m", "l">> :> <<"H", "T", "M", "L">> @@
    <<"c", "s", "s">> :> <<"C", "S", "S">> @@
    <<"b", "a", "s", "h">> :> <<"B", "a", "s", "h">> @@
    <<"s", "h", "e", "l", "l">> :> <<"S", "h", "e", "l", "l">> @@
    <<"s", "q", "l">> :> <<"S", "Q", "L">> @@
    <<"j", "s", "o", "n">> :> <<"J", "S", "O", "N">> @@
    <<"x", "m", "l">> :> <<"X", "M", "L">> @@
    <<"y", "a", "m", "l">> :> <<"Y", "A", "M", "L">> @@
    <<"y", "m", "l">> :> <<"Y", "A", "M", "L">>

\* lang_display_names.get(language.lower(), language.capitalize())
LangName(language) ==
    IF lower(language) \in DOMAIN lang_display_names
    THEN lang_display_names[lower(language)]
    ELSE capitalize(language)

RECURSIVE Flatten(_)
Flatten(ss) == IF ss = <<>> THEN <<>> ELSE ss[1] \o Flatten(Tail(ss))

\* every text of a row between an opening and a closing tag
Tagged(row, open, close) ==
    Flatten([k \in 1..Len(row) |-> <<open>> \o row[k] \o <<close>>])

Render(b) ==
    IF b.kind = "heading"
    THEN (IF b.level = 2 THEN <<"<!-- wp:heading -->\n<h">>
          ELSE <<"<!-- wp:heading {\"level\": ", NumStr(b.level), "} -->\n<h">>)
         \o <<NumStr(b.level), " class=\"wp-block-heading\">">> \o b.parts[1][1]
         \o <<"</h", NumStr(b.level), ">\n<!-- /wp:heading -->">>
    ELSE IF b.kind = "paragraph"
    THEN <<"<!-- wp:paragraph -->\n<p>">> \o b.parts[1][1]
         \o <<"</p>\n<!-- /wp:paragraph -->">>
    ELSE IF b.kind = "quote"
    THEN <<"<!-- wp:quote -->\n<blockquote class=\"wp-block-quote\"><!-- wp:paragraph -->\n<p>">>
         \o b.parts[1][1]
         \o <<"</p>\n<!-- /wp:paragraph --></blockquote>\n<!-- /wp:quote -->">>
    ELSE IF b.kind = "image"
    THEN <<"<!-- wp:image -->\n<figure class=\"wp-block-image\"><img src=\"">>
         \o b.parts[1][1] \o <<"\" alt=\"">> \o b.parts[1][2]
         \o <<"\"/></figure>\n<!-- /wp:image -->">>
    ELSE IF b.kind = "list"
    THEN (IF b.ordered THEN <<"<!-- wp:list {\"ordered\": true} -->\n<ol>">>
          ELSE <<"<!-- wp:list {} -->\n<ul>">>)
         \o Tagged(b.parts[1], "<li>", "</li>")
         \o (IF b.ordered THEN <<"</ol>">> ELSE <<"</ul>">>)
         \o <<"\n<!-- /wp:list -->">>
    ELSE IF b.kind = "hcb-code"
    THEN LET lang_name == IF b.language = <<"t", "e", "x", "t">>
                          THEN <<"T", "e", "x", "t">> ELSE LangName(b.language)
         IN  <<"<!-- wp:loos-hcb/code-block {\"langType\": \"">> \o b.language
             \o <<"\", \"langName\": \"">> \o lang_name
             \o <<"\"} -->\n<div class=\"hcb_wrap\"><pre class=\"prism undefined-numbers lang-">>
             \o b.language \o <<"\" data-lang=\"">> \o lang_name \o <<"\"><code>">>
             \o b.parts[1][1]
             \o <<"</code></pre></div>\n<!-- /wp:loos-hcb/code-block -->">>
    ELSE IF b.kind = "code"
    THEN (IF b.language # <<>>
          THEN <<"<!-- wp:code {\"language\": \"">> \o b.language
               \o <<"\"} -->\n<pre class=\"wp-block-code\"><code lang=\"">> \o b.language
               \o <<"\" class=\"language-">> \o b.language \o <<"\">">>
          ELSE <<"<!-- wp:code -->\n<pre class=\"wp-block-code\"><code>">>)
         \o b.parts[1][1] \o <<"</code></pre>\n<!-- /wp:code -->">>
    ELSE IF b.kind = "table"
    THEN <<"<!-- wp:table -->\n<figure class=\"wp-block-table\"><table class=\"has-fixed-layout\"><thead><tr>">>
         \o Tagged(b.parts[1], "<th>", "</th>") \o <<"</tr></thead><tbody>">>
         \o Flatten([r \in 1..(Len(b.parts) - 1) |->
                       <<"<tr>">> \o Tagged(b.parts[r + 1], "<td>", "</td>") \o <<"</tr>">>])
         \o <<"</tbody></table></figure>\n<!-- /wp:table -->">>
    ELSE <<"<!-- wp:footnotes /-->">>

\* '\n\n'.join(blocks)
Document(bs) == Join([k \in 1..Len(bs) |-> Render(bs[k])], <<"\n\n">>)

-----------------------------------------------------------------------------
(* Inputs *)

\* one line or more for every rule of the scanner
Lines ==
    { <<>>,
      <<"#", " ", "a">>,
      <<"#", "#", "#", "#", "#", "#", "#", " ", "a">>,
      <<"BACKTICK", "BACKTICK", "BACKTICK">>,
      <<"|", "a", "|", "b", "|">>,
      <<"|", "-", "|", "-", "|">>,
      <<">", " ", "a">>,
      <<"-", " ", "a">>,
      <<"1", ".", " ", "b">>,
      <<"!", "[", "a", "]", "(", "b", ")">>,
      <<"a", "[", "^", "a", "]">>,
      <<"[", "^", "a", "]", ":", " ", "d">> }

\* references, definitions (one with a URL), a continuation line
FootLines ==
    { <<>>,
      <<"x", "[", "^", "a", "]">>,
      <<"[", "^", "b", "]", " ", "[", "^", "a", "]", " ", "[", "^", "b", "]">>,
      <<"[", "^", "a", "]", ":", " ", "d">>,
      <<"[", "^", "b", "]", ":", " ", "h", "t", "t", "p", ":", "/", "/", "x", ".">>,
      <<"[", "^", "c", "_", "d", "_", "]">>,
      <<" ", " ", " ", " ", "e">>,
      <<"*", "y", "*">> }

\* pipe rows of 1, 2 and 4 cells, a separator row, an empty pipe row
TableLines ==
    { <<>>,
      <<"|", "a", "|", "b", "|">>,
      <<"|", "-", "|", "-", "|">>,
      <<"|", "c", "|", "d", "|", "e", "|", "f", "|">>,
      <<"|", " ", "c", " ", "|">>,
      <<"|", " ", "|">>,
      <<"x">> }

\* unordered and ordered list lines
ListLines ==
    { <<>>,
      <<"-", " ", "a">>,
      <<"1", ".", " ", "b">>,
      <<"*", " ", "c">>,
      <<"2", ".", " ", "d">>,
      <<"x">> }

\* the pieces the texts given to the Inline Formatter are made of
Chunks ==
    { <<"a">>,
      <<"[">>,
      <<"]">>,
      <<"*">>,
      <<"_">>,
      <<"BACKTICK">>,
      <<"(">>,
      <<")">>,
      <<"[", "^", "a", "]">>,
      <<"[", "g", " ", "x", "]">>,
      <<"*", "*">> }

\* image lines: the image syntax alone, followed by text, preceded by text
ImageLines ==
    { <<>>,
      <<"!", "[", "a", "]", "(", "b", ")">>,
      <<" ", "!", "[", "a", "]", "(", "b", ")", " ">>,
      <<"!", "[", "a", "]", "(", "b", ")", " ", "x">>,
      <<"y", " ", "!", "[", "a", "]", "(", "b", ")">>,
      <<"z">> }

\* fences with and without a language, lines with characters that
\* escape_html and the Inline Formatter rewrite, a definition, a reference
CodeLines ==
    { <<>>,
      <<"BACKTICK", "BACKTICK", "BACKTICK">>,
      <<"BACKTICK", "BACKTICK", "BACKTICK", "p", "y">>,
      <<"a", "<", "b", "&">>,
      <<"*", "c", "*", ">">>,
      <<"[", "^", "a", "]", ":", " ", "d">>,
      <<"x", "[", "^", "a", "]">> }

\* references in plain text and next to a shortcode token, their definitions
MarkerLines ==
    { <<>>,
      <<"x", "[", "^", "a", "]">>,
      <<"y", "[", "^", "b", "]">>,
      <<"[", "g", "]", " ", "[", "^", "a", "]">>,
      <<"[", "^", "a", "]", ":", " ", "d">>,
      <<"[", "^", "b", "]", ":", " ", "e">> }

\* list lines of both types, blank lines, a paragraph line and a line that
\* starts with a digit and is no list line
BlankLines ==
    { <<>>,
      <<"-", " ", "a">>,
      <<"*", " ", "c">>,
      <<"1", ".", " ", "b">>,
      <<"2", "x">>,
      <<"x">> }

\* two definitions of one id, a continuation line, a reference
DupLines ==
    { <<>>,
      <<"x", "[", "^", "a", "]">>,
      <<"[", "^", "a", "]", ":", " ", "d">>,
      <<"[", "^", "a", "]", ":", " ", "e">>,
      <<" ", " ", " ", " ", "f">> }

\* rows of three columns, two of them with an empty cell
CellLines ==
    { <<>>,
      <<"|", "a", "|", "b", "|", "c", "|">>,
      <<"|", "-", "|", "-", "|", "-", "|">>,
      <<"|", "d", "|", " ", "|", "f", "|">>,
      <<"|", "|", "e", "|", "f", "|">> }

\* list lines, and lines that start with a marker that no whitespace follows
OpenerLines ==
    { <<>>,
      <<"-", " ", "a">>,
      <<"*", "b", "*">>,
      <<"1", ".", " ", "b">>,
      <<"2", ".", "c">>,
      <<"x">> }

Documents(pool, n) == UNION {[1..m -> pool] : m \in 1..n}

TextsOf(pool) == {Flatten(cs) : cs \in UNION {[1..m -> pool] : m \in 0..MaxChunks}}

Texts == TextsOf(Chunks)

\* the pieces of texts with inline links: link texts that start with a word
\* character, a space, a hyphen or an asterisk, and a URL part
LinkChunks ==
    { <<"x">>,
      <<" ">>,
      <<"[", "a", "]">>,
      <<"[", " ", "a", "]">>,
      <<"[", "-", "]">>,
      <<"[", "*", "a", "*", "]">>,
      <<"(", "b", ")">>,
      <<"(", "b", "_", "c", "_", ")">>,
      <<"[", "^", "a", "]">> }

LinkTexts == TextsOf(LinkChunks)

\* the footnote_counter arguments tried: no entry, and an entry for the id a
Counters == {<<>>, (<<"a">> :> <<"u1", 1>>)}

-----------------------------------------------------------------------------
(* markdown_to_gutenberg as a state machine *)

NoResult == [document |-> <<>>, footnotes |-> <<>>]

\* a file without front matter, without images
NoFile == [private |-> "missing", wp_id |-> 0, image |-> "none", featured |-> "none"]

\* the local variables of main before main has read anything
NoLocal == [fm |-> NoFile, wp_id |-> 0, new_id |-> 0, featured_image_id |-> FALSE]

\* main is not running
MainIdle ==
    /\ md_file = NoFile
    /\ local = NoLocal
    /\ posts = 0
    /\ effects = {}
    /\ mpc = "idle"
    /\ runs = 0

InitDoc(pool, n) ==
    /\ markdown_content \in Documents(pool, n)
    /\ use_highlight_plugin \in BOOLEAN
    /\ pc = "start"
    /\ lines = <<>>
    /\ footnotes = <<>>
    /\ footnote_order = <<>>
    /\ i = 1
    /\ blocks = <<>>
    /\ footnotes_meta = <<>>
    /\ iters = 0
    /\ run = 1
    /\ prev = NoResult
    /\ text = <<>>
    /\ counter_given = TRUE
    /\ out = <<>>
    /\ MainIdle

Init == InitDoc(Lines, MaxLines)

\* if footnotes and footnote_order
HasFootnotes(fn, order) == fn # <<>> /\ order # <<>>

\* lines 695-713: extraction, the order map, the split into lines
Start ==
    /\ pc = "start"
    /\ LET ex == extract_footnotes(markdown_content)
           refs == FootnoteRefs(ex.content, 1)
       IN  /\ footnotes' = ex.footnotes
           /\ lines' = Split(ex.content, "\n")
           /\ \E uuids \in UuidChoices(NumResolved(refs, 1, ex.footnotes, {})) :
                 footnote_order' = AssignOrder(refs, 1, ex.footnotes, <<>>, 1, uuids)
    /\ i' = 1
    /\ blocks' = <<>>
    /\ pc' = "scan"
    /\ UNCHANGED <<markdown_content, use_highlight_plugin, footnotes_meta, iters,
                   run, prev, text, counter_given, out>>
    /\ UNCHANGED mainvars

\* lines 715-798: one iteration of  while i < len(lines)
ScanStep ==
    /\ pc = "scan"
    /\ i <= Len(lines)
    /\ iters < MaxIters
    /\ LET r == ScanIteration(lines, i, use_highlight_plugin, footnote_order)
       IN  /\ blocks' = blocks \o r.blocks
           /\ i' = r.next
    /\ iters' = iters + 1
    /\ UNCHANGED <<markdown_content, use_highlight_plugin, pc, lines, footnotes,
                   footnote_order, footnotes_meta, run, prev, text,
                   counter_given, out>>
    /\ UNCHANGED mainvars

\* lines 800-824: the footnotes block, the footnotes list, the return
Finish ==
    /\ pc = "scan"
    /\ i > Len(lines)
    /\ IF HasFootnotes(footnotes, footnote_order)
       THEN /\ blocks' = AppendBlock(blocks,
                                     create_footnotes_block(footnotes, footnote_order))
            /\ footnotes_meta' = FootnotesMeta(footnotes, footnote_order)
       ELSE /\ blocks' = blocks
            /\ footnotes_meta' = <<>>
    /\ pc' = "done"
    /\ UNCHANGED <<markdown_content, use_highlight_plugin, lines, footnotes,
                   footnote_order, i, iters, run, prev, text, counter_given, out>>
    /\ UNCHANGED mainvars

\* the value markdown_to_gutenberg returns
Result == [document |-> Document(blocks), footnotes |-> footnotes_meta]

\* the caller converts the same text with the same flag a second time
Reinvoke ==
    /\ pc = "done"
    /\ run = 1
    /\ prev' = Result
    /\ run' = 2
    /\ pc' = "start"
    /\ lines' = <<>>
    /\ footnotes' = <<>>
    /\ footnote_order' = <<>>
    /\ i' = 1
    /\ blocks' = <<>>
    /\ footnotes_meta' = <<>>
    /\ iters' = 0
    /\ UNCHANGED <<markdown_content, use_highlight_plugin, text, counter_given, out>>
    /\ UNCHANGED mainvars

Next == Start \/ ScanStep \/ Finish

Spec == Init /\ [][Next]_vars

\* documents about footnotes
InitFoot == InitDoc(FootLines, MaxLines)

SpecFoot == InitFoot /\ [][Next]_vars

\* two invocations on the same input
NextTwice == Start \/ ScanStep \/ Finish \/ Reinvoke

SpecTwice == InitFoot /\ [][NextTwice]_vars

\* documents about tables
InitTable == InitDoc(TableLines, MaxTableLines)

SpecTable == InitTable /\ [][Next]_vars

\* documents about lists
InitList == InitDoc(ListLines, MaxLines)

SpecList == InitList /\ [][Next]_vars

\* documents about images
InitImage == InitDoc(ImageLines, MaxLines)

SpecImage == InitImage /\ [][Next]_vars

\* documents about fenced code
InitCode == InitDoc(CodeLines, MaxLines)

SpecCode == InitCode /\ [][Next]_vars

\* documents about footnote markers
InitMarker == InitDoc(MarkerLines, MaxLines)

SpecMarker == InitMarker /\ [][Next]_vars

\* documents about blank lines in lists
InitBlank == InitDoc(BlankLines, MaxListLines)

SpecBlank == InitBlank /\ [][Next]_vars

\* documents with duplicate definitions
InitDup == InitDoc(DupLines, MaxLines)

SpecDup == InitDup /\ [][Next]_vars

\* documents about the cells of a table row
InitCell == InitDoc(CellLines, MaxLines)

SpecCell == InitCell /\ [][Next]_vars

\* documents about the lines a list absorbs
InitOpener == InitDoc(OpenerLines, MaxLines)

SpecOpener == InitOpener /\ [][Next]_vars

-----------------------------------------------------------------------------
(* process_inline_formatting called on its own *)

InitText(pool) ==
    /\ text \in pool
    /\ counter_given \in BOOLEAN
    /\ footnote_order \in Counters
    /\ pc = "inline"
    /\ out = <<>>
    /\ markdown_content = <<>>
    /\ use_highlight_plugin = FALSE
    /\ lines = <<>>
    /\ footnotes = <<>>
    /\ i = 1
    /\ blocks = <<>>
    /\ footnotes_meta = <<>>
    /\ iters = 0
    /\ run = 1
    /\ prev = NoResult
    /\ MainIdle

Format ==
    /\ pc = "inline"
    /\ out' = process_inline_formatting(text, counter_given, footnote_order)
    /\ pc' = "returned"
    /\ UNCHANGED <<markdown_content, use_highlight_plugin, lines, footnotes,
                   footnote_order, i, blocks, footnotes_meta, iters, run, prev,
                   text, counter_given>>
    /\ UNCHANGED mainvars

InitInline == InitText(Texts)

NextInline == Format

SpecInline == InitInline /\ [][NextInline]_vars

\* texts with inline links
InitLink == InitText(LinkTexts)

SpecLink == InitLink /\ [][NextInline]_vars

-----------------------------------------------------------------------------
(* main.  The file is its front matter and what it says of images: image   *)
(* is the state of the image of the body, featured that of the featured    *)
(* image ("none": there is none, "local": a local file that wp_images does *)
(* not have, "uploaded": wp_images has its media id).  A remote command    *)
(* (ssh, scp) succeeds or fails; a failure raises, and the exception ends  *)
(* main at the handler of lines 1194-1197.                                 *)

\* the values of the front matter's private key: the key is absent, null,
\* the booleans, the integers 0 and 1, a string
PrivateValues == {"missing", "null", "true", "false", "0", "1", "'true'"}

\* fm.get("private") == True
EqTrue(v) == v \in {"true", "1"}

\* fm.get("private") == None
EqNone(v) == v \in {"missing", "null"}

\* a small text without a footnote and one with a footnote
MainDocuments ==
    { << <<"x">> >>,
      << <<"x", "[", "^", "a", "]">>, <<"[", "^", "a", "]", ":", " ", "d">> >> }

\* the variables of the converter
convvars == <<markdown_content, use_highlight_plugin, pc, lines, footnotes,
              footnote_order, i, blocks, footnotes_meta, iters, run, prev,
              text, counter_given, out>>

\* wp_images has an entry with a media id
HasMedia(fm) == fm.image = "uploaded" \/ fm.featured = "uploaded"

InitMain ==
    /\ markdown_content \in MainDocuments
    /\ use_highlight_plugin \in BOOLEAN
    /\ pc = "idle"
    /\ lines = <<>>
    /\ footnotes = <<>>
    /\ footnote_order = <<>>
    /\ i = 1
    /\ blocks = <<>>
    /\ footnotes_meta = <<>>
    /\ iters = 0
    /\ run = 1
    /\ prev = NoResult
    /\ text = <<>>
    /\ counter_given = TRUE
    /\ out = <<>>
    /\ md_file \in [private : PrivateValues, wp_id : {0, 1},
                    image : {"none", "local"}, featured : {"none", "local"}]
    /\ local = NoLocal
    /\ posts = md_file.wp_id
    /\ effects = {}
    /\ mpc = "begin"
    /\ runs = 1

\* an exception: main ends where it is
Raise == mpc' = "ended"

\* lines 998-1041: the configuration, the front matter, the privacy gate
MainGate ==
    /\ mpc = "begin"
    /\ IF EqTrue(md_file.private) \/ EqNone(md_file.private)
       THEN /\ local' = [local EXCEPT !.fm = md_file]
            /\ mpc' = "ended"
       ELSE /\ local' = [local EXCEPT !.fm = md_file, !.wp_id = md_file.wp_id]
            /\ mpc' = "images"
    /\ UNCHANGED <<md_file, posts, effects, runs>>
    /\ UNCHANGED convvars

\* line 1044, process_images_with_local_rename: the image is renamed and
\* uploaded, the file is written
ProcessImages ==
    /\ mpc = "images"
    /\ \E ok \in BOOLEAN :
          IF md_file.image = "local"
          THEN IF ok
               THEN /\ md_file' = [md_file EXCEPT !.image = "uploaded"]
                    /\ effects' = effects \cup {"rename", "remote", "write"}
                    /\ mpc' = "featured"
               ELSE /\ md_file' = md_file
                    /\ effects' = effects \cup {"rename", "remote"}
                    /\ Raise
          ELSE /\ ok
               /\ md_file' = md_file
               /\ effects' = effects \cup {"write"}
               /\ mpc' = "featured"
    /\ UNCHANGED <<local, posts, runs>>
    /\ UNCHANGED convvars

\* lines 1047-1076: process_internal_links (no effect), the featured image,
\* the front matter read again
ProcessFeatured ==
    /\ mpc = "featured"
    /\ \E ok \in BOOLEAN :
          IF md_file.featured = "local"
          THEN IF ok
               THEN /\ md_file' = [md_file EXCEPT !.featured = "uploaded"]
                    /\ effects' = effects \cup {"rename", "remote", "write"}
                    /\ local' = [local EXCEPT !.fm = md_file', !.featured_image_id = TRUE]
                    /\ mpc' = "convert"
               ELSE /\ md_file' = md_file
                    /\ effects' = effects \cup {"rename", "remote"}
                    /\ local' = local
                    /\ Raise
          ELSE /\ ok
               /\ md_file' = md_file
               /\ effects' = IF md_file.featured = "uploaded"
                             THEN effects \cup {"write"} ELSE effects
               /\ local' = [local EXCEPT !.fm = md_file,
                                         !.featured_image_id = md_file.featured = "uploaded"]
               /\ mpc' = "convert"
    /\ UNCHANGED <<posts, runs>>
    /\ UNCHANGED convvars

\* lines 1079-1082: markdown_to_gutenberg is called
Convert ==
    /\ mpc = "convert"
    /\ pc = "idle"
    /\ pc' = "start"
    /\ mpc' = "converting"
    /\ UNCHANGED <<markdown_content, use_highlight_plugin, lines, footnotes,
                   footnote_order, i, blocks, footnotes_meta, iters, run, prev,
                   text, counter_given, out>>
    /\ UNCHANGED <<md_file, local, posts, effects, runs>>

\* lines 1085-1095: the converted text is written to a file and copied to
\* the server
Upload ==
    /\ mpc = "converting"
    /\ pc = "done"
    /\ effects' = effects \cup {"tmpfile", "remote"}
    /\ \E ok \in BOOLEAN :
          IF ok THEN mpc' = IF local.wp_id = 0 THEN "create" ELSE "update"
          ELSE Raise
    /\ UNCHANGED <<md_file, local, posts, runs>>
    /\ UNCHANGED convvars

\* lines 1097-1105: wp post create; the id it prints goes to fm["wp_id"]
PostCreate ==
    /\ mpc = "create"
    /\ effects' = effects \cup {"remote"}
    /\ \E ok \in BOOLEAN :
          IF ok
          THEN /\ posts' = posts + 1
               /\ local' = [local EXCEPT !.new_id = posts + 1, !.fm.wp_id = posts + 1]
               /\ mpc' = "assign"
          ELSE /\ UNCHANGED <<posts, local>>
               /\ Raise
    /\ UNCHANGED <<md_file, runs>>
    /\ UNCHANGED convvars

\* line 1108, assign_images_to_post: a query per image of wp_images
AssignImages ==
    /\ mpc = "assign"
    /\ \E ok \in BOOLEAN :
          IF HasMedia(local.fm)
          THEN /\ effects' = effects \cup {"remote"}
               /\ IF ok THEN mpc' = "write_id" ELSE Raise
          ELSE /\ ok
               /\ effects' = effects
               /\ mpc' = "write_id"
    /\ UNCHANGED <<md_file, local, posts, runs>>
    /\ UNCHANGED convvars

\* line 1110: write_frontmatter(md_file, fm)
WriteId ==
    /\ mpc = "write_id"
    /\ md_file' = [md_file EXCEPT !.wp_id = local.fm.wp_id]
    /\ effects' = effects \cup {"write"}
    /\ mpc' = "thumb"
    /\ UNCHANGED <<local, posts, runs>>
    /\ UNCHANGED convvars

\* lines 1115-1120: the featured image of the new post
SetThumb ==
    /\ mpc = "thumb"
    /\ \E ok \in BOOLEAN :
          IF local.featured_image_id
          THEN /\ effects' = effects \cup {"remote"}
               /\ IF ok THEN mpc' = "footnotes" ELSE Raise
          ELSE /\ ok
               /\ effects' = effects
               /\ mpc' = "footnotes"
    /\ UNCHANGED <<md_file, local, posts, runs>>
    /\ UNCHANGED convvars

\* lines 1123-1134: the footnotes of the new post
SetFootnotes ==
    /\ mpc = "footnotes"
    /\ \E ok \in BOOLEAN :
          IF footnotes_meta # <<>>
          THEN /\ effects' = effects \cup {"remote"}
               /\ IF ok THEN mpc' = "cleanup" ELSE Raise
          ELSE /\ ok
               /\ effects' = effects
               /\ mpc' = "cleanup"
    /\ UNCHANGED <<md_file, local, posts, runs>>
    /\ UNCHANGED convvars

\* lines 1139-1155: wp post update, with the featured image
PostUpdate ==
    /\ mpc = "update"
    /\ effects' = effects \cup {"remote"}
    /\ \E ok \in BOOLEAN : IF ok THEN mpc' = "assign_existing" ELSE Raise
    /\ UNCHANGED <<md_file, local, posts, runs>>
    /\ UNCHANGED convvars

\* line 1158, assign_images_to_post for the existing post
AssignExisting ==
    /\ mpc = "assign_existing"
    /\ \E ok \in BOOLEAN :
          IF HasMedia(local.fm)
          THEN /\ effects' = effects \cup {"remote"}
               /\ IF ok THEN mpc' = "update_footnotes" ELSE Raise
          ELSE /\ ok
               /\ effects' = effects
               /\ mpc' = "update_footnotes"
    /\ UNCHANGED <<md_file, local, posts, runs>>
    /\ UNCHANGED convvars

\* lines 1164-1183: the footnotes of the existing post are updated, or
\* deleted with check=False
UpdateFootnotes ==
    /\ mpc = "update_footnotes"
    /\ effects' = effects \cup {"remote"}
    /\ \E ok \in BOOLEAN :
          IF footnotes_meta # <<>> /\ ~ok THEN Raise ELSE mpc' = "cleanup"
    /\ UNCHANGED <<md_file, local, posts, runs>>
    /\ UNCHANGED convvars

\* line 1186: the local file with the converted text is removed
Cleanup ==
    /\ mpc = "cleanup"
    /\ effects' = effects \cup {"tmpfile"}
    /\ mpc' = "ended"
    /\ UNCHANGED <<md_file, local, posts, runs>>
    /\ UNCHANGED convvars

\* lines 1189-1197: the script is run again on the same file
Rerun ==
    /\ mpc = "ended"
    /\ runs < MaxRuns
    /\ runs' = runs + 1
    /\ mpc' = "begin"
    /\ local' = NoLocal
    /\ effects' = {}
    /\ pc' = "idle"
    /\ lines' = <<>>
    /\ footnotes' = <<>>
    /\ footnote_order' = <<>>
    /\ i' = 1
    /\ blocks' = <<>>
    /\ footnotes_meta' = <<>>
    /\ iters' = 0
    /\ UNCHANGED <<markdown_content, use_highlight_plugin, run, prev, text,
                   counter_given, out, md_file, posts>>

NextMain ==
    \/ MainGate \/ ProcessImages \/ ProcessFeatured \/ Convert
    \/ Start \/ ScanStep \/ Finish
    \/ Upload \/ PostCreate \/ AssignImages \/ WriteId \/ SetThumb \/ SetFootnotes
    \/ PostUpdate \/ AssignExisting \/ UpdateFootnotes \/ Cleanup \/ Rerun

SpecMain == InitMain /\ [][NextMain]_vars

-----------------------------------------------------------------------------
(* Properties *)

\* the ids of the references of the cleaned text, in order of occurrence
References == FootnoteRefs(Join(lines, <<"\n">>), 1)

\* the referenced ids that have a definition
ResolvedIds == {References[k] : k \in 1..Len(References)} \cap DOMAIN footnotes

\* the position, among the references, of the first reference to id
FirstReference(id) == Min({k \in 1..Len(References) : References[k] = id})

\* C1: every iteration of the outer loop of the block scanner strictly
\* increases the line cursor, so the conversion terminates
C1_EveryIterationAdvances == [][ScanStep => i' > i]_vars

\* a result with every token replaced by the position of its entry in the
\* footnotes list
Anonymous(r) ==
    LET Position(t) == IF \E k \in 1..Len(r.footnotes) : r.footnotes[k].id = t
                       THEN NumStr(CHOOSE k \in 1..Len(r.footnotes) : r.footnotes[k].id = t)
                       ELSE t
    IN  [document |-> [k \in 1..Len(r.document) |->
                          IF r.document[k] \in Tokens THEN Position(r.document[k])
                          ELSE r.document[k]],
         footnotes |-> [k \in 1..Len(r.footnotes) |->
                          [id |-> NumStr(k), content |-> r.footnotes[k].content]]]

\* C2 as stated: two invocations with the same text and flag return the same
\* document and the same footnotes list
C2_SameResult == (run = 2 /\ pc = "done") => Result = prev

\* C2 amended: two invocations with the same text and flag return the same
\* document and footnotes list up to the generated tokens, and the very same
\* result when no reference resolved
C2_SameUpToTokens ==
    (run = 2 /\ pc = "done") =>
        /\ Anonymous(Result) = Anonymous(prev)
        /\ footnotes_meta = <<>> => Result = prev

C2_Witness ==
    /\ run = 2
    /\ pc = "done"
    /\ Len(footnotes_meta) = 2
    /\ Result # prev

\* C3: the order map gives the resolved ids exactly the ordinals 1..n, in the
\* order of their first reference, whatever the order of the definitions;
\* there is one entry per id and distinct ids have distinct tokens
C3_OrdinalsDenseByFirstReference ==
    pc \in {"scan", "done"} =>
        /\ DOMAIN footnote_order = ResolvedIds
        /\ {footnote_order[id][2] : id \in ResolvedIds} = 1..Cardinality(ResolvedIds)
        /\ \A a, b \in ResolvedIds :
              /\ FirstReference(a) < FirstReference(b)
                    => footnote_order[a][2] < footnote_order[b][2]
              /\ a # b => footnote_order[a][1] # footnote_order[b][1]

\* b is referenced first and twice, a is defined first
C3_Witness ==
    /\ pc = "scan"
    /\ References = <<<<"b">>, <<"a">>, <<"b">>>>
    /\ FootnoteDef(markdown_content[1]).id = <<"a">>
    /\ DOMAIN footnote_order = {<<"a">>, <<"b">>}
    /\ footnote_order[<<"b">>][2] = 1
    /\ footnote_order[<<"a">>][2] = 2

\* C4: the footnotes block is emitted iff a reference has a definition, it
\* is then the last block, and the other blocks are in source-line order
C4_FootnotesBlockLast ==
    pc = "done" =>
        LET fb == {k \in 1..Len(blocks) : blocks[k].kind = "footnotes"}
            doc == Document(blocks)
        IN  /\ fb # {} <=> ResolvedIds # {}
            /\ fb \subseteq {Len(blocks)}
            /\ fb # {} => doc[Len(doc)] = "<!-- wp:footnotes /-->"
            /\ \A j, k \in 1..Len(blocks) \ fb : j < k => blocks[j].end < blocks[k].line

C4_Witness ==
    /\ pc = "done"
    /\ Len(blocks) = 3
    /\ blocks[3].kind = "footnotes"
    /\ blocks[1].kind = "heading"

\* C5: a reference whose id has no definition is in the rendered document
\* as the very text [^id] of the source
C5_UnresolvedVerbatim ==
    pc = "done" =>
        \A k \in 1..Len(References) :
            References[k] \notin DOMAIN footnotes
                => Contains(Document(blocks), <<"[", "^">> \o References[k] \o <<"]">>)

\* t contains '[', then a word character or a hyphen, then characters other
\* than ']', then ']'
ShortcodeToken(t) ==
    \E a, b \in 1..Len(t) :
        /\ a + 1 < b
        /\ t[a] = "["
        /\ t[a + 1] \in WordChars \cup {"-"}
        /\ t[b] = "]"
        /\ \A j \in (a + 1)..(b - 1) : t[j] # "]"

\* C6: a text with a shortcode token is returned unchanged by the Inline
\* Formatter, no substitution applied
C6_ShortcodeBypass ==
    (pc = "returned" /\ ShortcodeToken(text)) => out = text

\* a text with a shortcode token that the substitutions would have changed
C6_Witness ==
    /\ pc = "returned"
    /\ ShortcodeToken(text)
    /\ InlineSubstitutions(text, counter_given, footnote_order) # text
    /\ out = text

\* the pipe rows of the source lines a table block was made from
PipeRowsOf(b) ==
    SelectSeq([k \in 1..(b.end - b.line + 1) |-> strip(lines[b.line + k - 1])], IsPipeRow)

HasCell(row) == RowCells(row) # <<>>

\* the pipe rows after the second that have a non-empty cell
BodySourceRows(b) == SelectSeq(SubSeq(PipeRowsOf(b), 3, Len(PipeRowsOf(b))), HasCell)

Formatted(cells) ==
    [k \in 1..Len(cells) |-> process_inline_formatting(cells[k], TRUE, footnote_order)]

TableBlocks == {k \in 1..Len(blocks) : blocks[k].kind = "table"}

\* C7: with N header cells, a rendered body row has at most N cells: the
\* first N of a row of M > N cells, all M cells of a row of M < N cells
C7_TableTruncation ==
    pc = "done" =>
        \A t \in TableBlocks :
            LET b == blocks[t]
                N == Len(RowCells(PipeRowsOf(b)[1]))
                src == BodySourceRows(b)
            IN  \A r \in 1..(Len(b.parts) - 1) :
                    LET M == Len(RowCells(src[r]))
                    IN  /\ r <= Len(src)
                        /\ Len(b.parts[r + 1]) <= N
                        /\ M > N => b.parts[r + 1] = Formatted(SubSeq(RowCells(src[r]), 1, N))
                        /\ M < N => Len(b.parts[r + 1]) = M

\* a header of 2 cells, a body row of 4 cells and a body row of 1 cell
C7_Witness ==
    /\ pc = "done"
    /\ lines = << <<"|", "a", "|", "b", "|">>, <<"|", "-", "|", "-", "|">>,
                  <<"|", "c", "|", "d", "|", "e", "|", "f", "|">>, <<"|", " ", "c", " ", "|">> >>
    /\ Len(blocks) = 1
    /\ blocks[1].parts = << <<<<"a">>, <<"b">>>>, <<<<"c">>, <<"d">>>>, <<<<"c">>>> >>

ListBlocks == {k \in 1..Len(blocks) : blocks[k].kind = "list"}

\* the marker style of a list line: TRUE for digits and a dot
OrderedStyle(line) == line[1] \in Digits

\* C8: a list has the type of its first line, consumes no line of the other
\* marker style, and a line of the other style after it starts a new list
C8_ListTypeLocking ==
    pc = "done" =>
        \A k \in ListBlocks :
            LET b == blocks[k]
                span == {j \in b.line..b.end : strip(lines[j]) # <<>>}
            IN  /\ b.ordered = OrderedStyle(strip(lines[b.line]))
                /\ \A j \in span : OrderedStyle(strip(lines[j])) = b.ordered
                /\ Len(b.parts[1]) = Cardinality(span)
                /\ (/\ b.end < Len(lines)
                    /\ IsListOpener(strip(lines[b.end + 1]))
                    /\ OrderedStyle(strip(lines[b.end + 1])) # b.ordered)
                   => /\ k < Len(blocks)
                      /\ blocks[k + 1].kind = "list"
                      /\ blocks[k + 1].line = b.end + 1
                      /\ blocks[k + 1].ordered # b.ordered

\* '- a' then '1. b': an unordered list of one item, then an ordered one
C8_Witness ==
    /\ pc = "done"
    /\ lines = << <<"-", " ", "a">>, <<"1", ".", " ", "b">> >>
    /\ Len(blocks) = 2
    /\ blocks[1].kind = "list" /\ ~blocks[1].ordered /\ blocks[1].parts = << <<<<"a">>>> >>
    /\ blocks[1].end = 1
    /\ blocks[2].kind = "list" /\ blocks[2].ordered /\ blocks[2].parts = << <<<<"b">>>> >>

\* a content without the markup of its links: the href copy of the URL and
\* the closing tag removed
RECURSIVE Unlinked(_)
Unlinked(c) ==
    IF c = <<>> THEN <<>>
    ELSE IF c[1] = "<a href=\""
         THEN Unlinked(Tail0(c, IndexFrom(c, 1, {"\">"}) + 1))
         ELSE IF c[1] = "</a>" THEN Unlinked(Tail(c))
              ELSE <<c[1]>> \o Unlinked(Tail(c))

\* a bare URL starts in d: the scheme and one character that is no whitespace
HasUrl(d) ==
    \E p \in 1..Len(d) :
        /\ UrlSchemeAt(d, p) # 0
        /\ p + UrlSchemeAt(d, p) <= Len(d)
        /\ d[p + UrlSchemeAt(d, p)] \notin Whitespace

\* C9: the footnotes list has one entry per resolved id; its k-th entry has
\* the token of ordinal k and the definition text with its URLs wrapped
C9_FootnotesList ==
    pc = "done" =>
        /\ Len(footnotes_meta) = Cardinality(ResolvedIds)
        /\ \A k \in 1..Len(footnotes_meta) :
              \E id \in ResolvedIds :
                  /\ footnote_order[id] = <<footnotes_meta[k].id, k>>
                  /\ Unlinked(footnotes_meta[k].content) = footnotes[id]
                  /\ HasUrl(footnotes[id])
                        <=> \E p \in 1..Len(footnotes_meta[k].content) :
                               footnotes_meta[k].content[p] = "<a href=\""
                  /\ ~HasUrl(footnotes[id]) => footnotes_meta[k].content = footnotes[id]

\* two entries, the first with a URL whose final dot stays outside the link
C9_Witness ==
    /\ pc = "done"
    /\ Len(footnotes_meta) = 2
    /\ footnotes_meta[2].content = <<"d">>
    /\ footnotes_meta[1].content =
          <<"<a href=\"", "h", "t", "t", "p", ":", "/", "/", "x", "\">",
            "h", "t", "t", "p", ":", "/", "/", "x", "</a>", ".">>

\* C10 as stated: a table of k >= 2 pipe rows has exactly k - 2 body rows
C10_BodyRowCount ==
    pc = "done" =>
        \A t \in TableBlocks : Len(blocks[t].parts) - 1 = Len(PipeRowsOf(blocks[t])) - 2

\* C10 amended: the header is the first row's cells, the second row is
\* omitted, and the body rows are, in source order, the rows after the
\* second that have a non-empty cell
C10_BodyRowsInOrder ==
    pc = "done" =>
        \A t \in TableBlocks :
            LET b == blocks[t]
                rows == PipeRowsOf(b)
                src == BodySourceRows(b)
                IsPrefix(x, y) == Len(x) <= Len(y) /\ x = SubSeq(y, 1, Len(x))
            IN  /\ Len(rows) >= 2
                /\ b.parts[1] = Formatted(RowCells(rows[1]))
                /\ Len(b.parts) - 1 = Len(src)
                /\ Len(src) <= Len(rows) - 2
                /\ \A r \in 1..Len(src) :
                      IsPrefix(b.parts[r + 1], Formatted(RowCells(src[r])))

\* four pipe rows, one of them without a cell: one body row
C10_Witness ==
    /\ pc = "done"
    /\ Len(blocks) = 1
    /\ blocks[1].kind = "table"
    /\ Len(PipeRowsOf(blocks[1])) = 4
    /\ blocks[1].parts = << <<<<"a">>, <<"b">>>>, <<<<"c">>>> >>

\* the inline links of t: [label](url), label without ']' and '^', url
\* without ')', both non-empty
InlineLinks(t) ==
    {<<p, k, m>> \in (1..Len(t)) \X (1..Len(t)) \X (1..Len(t)) :
        /\ p + 1 < k /\ k + 2 < m
        /\ t[p] = "[" /\ t[k] = "]" /\ t[k + 1] = "(" /\ t[m] = ")"
        /\ \A j \in (p + 1)..(k - 1) : t[j] \notin {"]", "^"}
        /\ \A j \in (k + 2)..(m - 1) : t[j] # ")"}

\* the anchor markup of the link <<p, k, m>> of t
Anchor(t, l) ==
    <<"<a href=\"">> \o SubSeq(t, l[2] + 2, l[3] - 1) \o <<"\">">>
    \o SubSeq(t, l[1] + 1, l[2] - 1) \o <<"</a>">>

\* C11: the output of the Inline Formatter has, for every inline link
\* [label](url) of its text, the anchor markup <a href="url">label</a>
C11_LinkToAnchor ==
    pc = "returned" => \A l \in InlineLinks(text) : Contains(out, Anchor(text, l))

ImageBlocks == {k \in 1..Len(blocks) : blocks[k].kind = "image"}

\* the image syntax ![alt](url)
ImageSyntax(alt, url) == <<"!", "[">> \o alt \o <<"]", "(">> \o url \o <<")">>

\* C12: an image block is emitted for a line only when the whole stripped
\* line is ![alt](path); the text of a line with more than the image syntax
\* is not lost
C12_ImageWholeLine ==
    pc = "done" =>
        \A k \in ImageBlocks :
            strip(lines[blocks[k].line])
                = ImageSyntax(blocks[k].parts[1][2], blocks[k].parts[1][1])

CodeBlocks == {k \in 1..Len(blocks) : blocks[k].kind \in {"code", "hcb-code"}}

\* the last line of the content of the code block b: the line before its
\* closing fence, or the last line of the text when there is none
CodeLast(b) ==
    IF b.end > b.line /\ strip(lines[b.end]) = Fence THEN b.end - 1 ELSE b.end

\* the lines between the fences of the code block b, joined by newlines
CodeSource(b) == Join(SubSeq(lines, b.line + 1, CodeLast(b)), <<"\n">>)

\* s with '&', '<' and '>' replaced by their entities
Escaped(s) ==
    [k \in 1..Len(s) |-> CASE s[k] = "&" -> "&amp;"
                            [] s[k] = "<" -> "&lt;"
                            [] s[k] = ">" -> "&gt;"
                            [] OTHER -> s[k]]

\* C13: with and without the highlight flag, with and without a language,
\* the rendered code block holds the lines between the fences with '&', '<'
\* and '>' escaped and no inline substitution applied
C13_CodeEscaped ==
    pc = "done" =>
        \A k \in CodeBlocks :
            Render(blocks[k])
                = Render([blocks[k] EXCEPT !.parts = <<<<Escaped(CodeSource(blocks[k]))>>>>])

\* the ordinals of the superscript markers of the text d, in order
RECURSIVE MarkerOrdinals(_, _)
MarkerOrdinals(d, p) ==
    IF p > Len(d) THEN <<>>
    ELSE IF d[p] = "<sup data-fn=\"" THEN <<d[p + 7]>> \o MarkerOrdinals(d, p + 9)
         ELSE MarkerOrdinals(d, p + 1)

\* the elements of q in the order of their first occurrence
RECURSIVE FirstOccurrences(_, _)
FirstOccurrences(q, seen) ==
    IF q = <<>> THEN <<>>
    ELSE IF q[1] \in seen THEN FirstOccurrences(Tail(q), seen)
         ELSE <<q[1]>> \o FirstOccurrences(Tail(q), seen \cup {q[1]})

\* C14: the ordinals of the markers of the rendered document, in order of
\* first appearance, are 1, 2, ..., n, and n is the number of entries of the
\* returned footnotes list
C14_MarkersDense ==
    pc = "done" =>
        FirstOccurrences(MarkerOrdinals(Document(blocks), 1), {})
            = [k \in 1..Len(footnotes_meta) |-> NumStr(k)]

\* line is a list line of the given type
ListLineOfType(line, ordered) ==
    IF ordered THEN IsOrderedStart(line) ELSE line # <<>> /\ line[1] \in ListMarkers

\* line j is an item of the list block b
ItemOf(b, j) == b.line <= j /\ j <= b.end /\ strip(lines[j]) # <<>>

\* the lines j+1 .. k-1 are blank and there is one at least
BlankRun(j, k) == j + 1 < k /\ \A n \in (j + 1)..(k - 1) : strip(lines[n]) = <<>>

\* C15 as stated: a run of one or more blank lines between an item of a list
\* and a list line of the list's type does not end the list
C15_BlankRunKeepsList ==
    pc = "done" =>
        \A t \in ListBlocks : \A j, k \in 1..Len(lines) :
            (/\ ItemOf(blocks[t], j)
             /\ BlankRun(j, k)
             /\ ListLineOfType(strip(lines[k]), blocks[t].ordered))
                => ItemOf(blocks[t], k)

\* C15 amended: one blank line between an item and a list line of the
\* list's type is skipped and both items are in one block; a blank line
\* after an item ends the list when the line right after it does not start
\* with '-', '*', '+' or a digit, so a run of two blank lines ends the list
C15_SingleBlankKeepsList ==
    pc = "done" =>
        \A t \in ListBlocks : \A j \in 1..(Len(lines) - 2) :
            LET b == blocks[t]
                next == strip(lines[j + 2])
            IN  (ItemOf(b, j) /\ strip(lines[j + 1]) = <<>>)
                    => /\ ListLineOfType(next, b.ordered)
                            => /\ ItemOf(b, j + 2)
                               /\ Len(b.parts[1])
                                     = Cardinality({n \in b.line..b.end : strip(lines[n]) # <<>>})
                       /\ (next = <<>> \/ next[1] \notin ListMarkers \cup Digits)
                            => b.end = j

\* an item, a blank line, an item of another marker of the same type: one
\* list of two items
C15_Witness ==
    /\ pc = "done"
    /\ Len(blocks) = 1
    /\ blocks[1].kind = "list" /\ blocks[1].line = 1 /\ blocks[1].end = 3
    /\ strip(lines[2]) = <<>>
    /\ blocks[1].parts = << <<<<"a">>, <<"c">>>> >>

\* l is a footnote-definition line: [^id]: and one character at least
DefinitionLine(l) ==
    \E k \in 4..(Len(l) - 2) :
        /\ l[1] = "[" /\ l[2] = "^" /\ l[k] = "]" /\ l[k + 1] = ":"
        /\ \A j \in 3..(k - 1) : l[j] # "]"

\* the id of the definition line l
DefinitionId(l) == SubSeq(l, 3, Min({k \in 4..Len(l) : l[k] = "]"}) - 1)

\* l starts with four spaces or a tab
Indented(l) ==
    \/ Len(l) >= 1 /\ l[1] = "\t"
    \/ Len(l) >= 4 /\ \A j \in 1..4 : l[j] = " "

\* line j of the source is a definition, or one of the indented lines that
\* follow a definition without a gap
Removed(src, j) ==
    \/ DefinitionLine(src[j])
    \/ \E d \in 1..(j - 1) :
          /\ DefinitionLine(src[d])
          /\ \A n \in (d + 1)..j : Indented(src[n])

\* the lines of the source that are not removed, in order
KeptLines(src) ==
    LET RECURSIVE Keep(_)
        Keep(j) == IF j > Len(src) THEN <<>>
                   ELSE IF Removed(src, j) THEN Keep(j + 1)
                        ELSE <<src[j]>> \o Keep(j + 1)
    IN  Keep(1)

\* C16: the cleaned text is the input without its definition lines and the
\* continuation lines that follow them, the other lines unchanged and in
\* order; the keys of the returned map are the ids of the removed definitions
C16_OnlyDefinitionsRemoved ==
    pc \in {"scan", "done"} =>
        /\ Join(lines, <<"\n">>) = Join(KeptLines(markdown_content), <<"\n">>)
        /\ DOMAIN footnotes
              = {DefinitionId(markdown_content[j]) :
                    j \in {n \in 1..Len(markdown_content) : DefinitionLine(markdown_content[n])}}

\* an indented line that is kept, a definition and its continuation line
C16_Witness ==
    /\ pc = "scan"
    /\ markdown_content = << <<" ", " ", " ", " ", "e">>,
                             <<"[", "^", "a", "]", ":", " ", "d">>,
                             <<" ", " ", " ", " ", "e">> >>
    /\ lines = << <<" ", " ", " ", " ", "e">> >>
    /\ footnotes = (<<"a">> :> <<"d", " ", "e">>)

\* the lines of the source that define id
DefinitionsOf(src, id) ==
    {j \in 1..Len(src) : DefinitionLine(src[j]) /\ DefinitionId(src[j]) = id}

\* the content of the definition at line j: its text and, after a space
\* each, the stripped indented lines that follow it
DefinitionContent(src, j) ==
    LET k == Min({n \in 4..Len(src[j]) : src[j][n] = "]"})
        after == Tail0(src[j], k + 2)
        first == IF lstrip(after, Whitespace) # <<>> THEN lstrip(after, Whitespace)
                 ELSE <<after[Len(after)]>>
        RECURSIVE More(_)
        More(n) == IF n <= Len(src) /\ Indented(src[n])
                   THEN <<" ">> \o strip(src[n]) \o More(n + 1) ELSE <<>>
    IN  first \o More(j + 1)

\* C17: with several definitions of one id the map keeps the content of the
\* last one, no definition line stays in the cleaned text, and the
\* footnotes list has one entry for the id, with that last content
C17_LastDefinitionWins ==
    pc = "done" =>
        /\ \A j \in 1..Len(lines) : ~DefinitionLine(lines[j])
        /\ \A id \in DOMAIN footnotes :
              LET last == Max(DefinitionsOf(markdown_content, id))
                  entries == {k \in 1..Len(footnotes_meta) :
                                 /\ id \in DOMAIN footnote_order
                                 /\ footnotes_meta[k].id = footnote_order[id][1]}
              IN  /\ footnotes[id] = DefinitionContent(markdown_content, last)
                  /\ id \in DOMAIN footnote_order => Cardinality(entries) = 1
                  /\ \A k \in entries :
                        footnotes_meta[k].content
                          = convert_urls_to_links(DefinitionContent(markdown_content, last))

\* a reference and two definitions of its id: the second content is kept
C17_Witness ==
    /\ pc = "done"
    /\ markdown_content = << <<"x", "[", "^", "a", "]">>,
                             <<"[", "^", "a", "]", ":", " ", "d">>,
                             <<"[", "^", "a", "]", ":", " ", "e">> >>
    /\ lines = << <<"x", "[", "^", "a", "]">> >>
    /\ Len(footnotes_meta) = 1
    /\ footnotes_meta[1].content = <<"e">>

\* the number of pipe rows of the candidate span that starts at line k: the
\* lines from k up to the first line that is neither a pipe row nor blank
SpanRows(k) ==
    LET stops == {n \in k..Len(lines) :
                     ~IsPipeRow(strip(lines[n])) /\ strip(lines[n]) # <<>>}
        last == IF stops = {} THEN Len(lines) ELSE Min(stops) - 1
    IN  Cardinality({n \in k..last : IsPipeRow(strip(lines[n]))})

\* C18: an iteration at a pipe row whose candidate span has fewer than 2 pipe
\* rows emits no table: it emits one paragraph that starts at that line and
\* holds its text, the line was not emitted before, and the cursor moves
\* behind the paragraph
C18_RejectedSpanIsParagraph ==
    [][(ScanStep /\ IsPipeRow(strip(lines[i])) /\ SpanRows(i) < 2)
         => /\ Len(blocks') = Len(blocks) + 1
            /\ \A j \in 1..Len(blocks) : blocks'[j] = blocks[j] /\ blocks[j].end < i
            /\ LET b == blocks'[Len(blocks')]
                    src == [n \in 1..(b.end - i + 1) |-> strip(lines[i + n - 1])]
               IN  /\ b.kind = "paragraph"
                   /\ b.line = i
                   /\ b.end >= i
                   /\ i' = b.end + 1
                   /\ b.parts = << <<process_inline_formatting(Join(src, <<" ">>),
                                                                TRUE, footnote_order)>> >>]_vars

\* one pipe row, a blank line, a paragraph line: two paragraphs, the first
\* with the text of the pipe row
C18_Witness ==
    /\ pc = "done"
    /\ Len(lines) >= 3
    /\ lines[1] = <<"|", "a", "|", "b", "|">>
    /\ lines[2] = <<>>
    /\ lines[3] = <<"x">>
    /\ Len(blocks) >= 2
    /\ blocks[1].kind = "paragraph"
    /\ Render(blocks[1]) = <<"<!-- wp:paragraph -->\n<p>", "|", "a", "|", "b", "|",
                             "</p>\n<!-- /wp:paragraph -->">>
    /\ blocks[2].kind = "paragraph" /\ blocks[2].line = 3

\* the pipe-delimited fields of a row without the first and the last one,
\* which its leading and its trailing pipe produce; each field stripped
InteriorFields(row) ==
    LET fields == Split(row, "|")
    IN  [k \in 1..(Len(fields) - 2) |-> strip(fields[k + 1])]

\* C19: the k-th rendered cell of a table row is the k-th pipe-delimited
\* field of the row, an empty field between two pipes included
C19_CellsKeepColumns ==
    pc = "done" =>
        \A t \in TableBlocks :
            LET b == blocks[t]
                src == <<PipeRowsOf(b)[1]>> \o BodySourceRows(b)
            IN  \A r \in 1..Len(b.parts) : \A k \in 1..Len(b.parts[r]) :
                    /\ k <= Len(InteriorFields(src[r]))
                    /\ b.parts[r][k]
                          = process_inline_formatting(InteriorFields(src[r])[k],
                                                      TRUE, footnote_order)

\* the contents of the fenced blocks of the source src, in order: the lines
\* between an opening fence and the next closing fence, or the end of src
RECURSIVE FencedContents(_, _, _, _)
FencedContents(src, j, inside, content) ==
    IF j > Len(src) THEN (IF inside THEN <<content>> ELSE <<>>)
    ELSE IF inside
         THEN IF strip(src[j]) = Fence
              THEN <<content>> \o FencedContents(src, j + 1, FALSE, <<>>)
              ELSE FencedContents(src, j + 1, TRUE, Append(content, src[j]))
         ELSE FencedContents(src, j + 1, startswith(strip(src[j]), Fence), <<>>)

\* the lines of src that lie between an opening and a closing fence
RECURSIVE FencedLines(_, _, _)
FencedLines(src, j, inside) ==
    IF j > Len(src) THEN {}
    ELSE IF inside
         THEN IF strip(src[j]) = Fence THEN FencedLines(src, j + 1, FALSE)
              ELSE {j} \cup FencedLines(src, j + 1, TRUE)
         ELSE FencedLines(src, j + 1, startswith(strip(src[j]), Fence))

\* the code blocks emitted, in order
EmittedCode == SelectSeq(blocks, LAMBDA b : b.kind \in {"code", "hcb-code"})

\* C20: the code blocks hold, in order, the lines of the source between
\* their fences, joined by newlines and none removed or altered, and a line
\* inside a fence defines no footnote
C20_FenceContentKept ==
    pc = "done" =>
        LET fenced == FencedContents(markdown_content, 1, FALSE, <<>>)
        IN  /\ Len(EmittedCode) = Len(fenced)
            /\ \A k \in 1..Len(EmittedCode) :
                  LET b == EmittedCode[k]
                      code == Join(fenced[k], <<"\n">>)
                  IN  Render(b)
                        = Render([b EXCEPT !.parts =
                                    <<<<IF b.kind = "hcb-code" THEN Escaped(code) ELSE code>>>>])
            /\ \A id \in DOMAIN footnotes :
                  DefinitionsOf(markdown_content, id)
                      \ FencedLines(markdown_content, 1, FALSE) # {}

\* C21: every line a list block took as an item passes the scanner's test
\* for opening a list: a marker, or digits and a dot, then whitespace
C21_ItemsAreOpeners ==
    pc = "done" =>
        \A t \in ListBlocks : \A j \in 1..Len(lines) :
            ItemOf(blocks[t], j) => IsListOpener(strip(lines[j]))

\* the value of private is the boolean false
PrivateIsFalse == md_file.private = "false"

\* C22: main rewrites the file, uploads or runs a remote command only when
\* the front matter's private value is the boolean false; for every other
\* value it returns before any side effect
C22_PrivacyGate ==
    (mpc # "idle" /\ ~PrivateIsFalse) => effects = {}

\* post create has succeeded in this run of main
Created == local.new_id # 0

\* C23: on the new-post path, once post create has succeeded the returned id
\* is in the file's front matter as wp_id when main ends, also when a later
\* step fails; hence running main again on the file never creates a second
\* post for it
C23_IdWrittenAfterCreate ==
    PrivateIsFalse =>
        /\ (mpc = "ended" /\ Created) => md_file.wp_id = local.new_id
        /\ posts <= 1

====
